---- MODULE Spec2Model ----
(***************************************************************************)
(* LR(0) item-set construction of thanatos/parser: grammar.py (symbols and *)
(* productions) and lr_parser.py (Item, Grammar, closure,                  *)
(* construct_transition, construct_all_transitions).                       *)
(*                                                                         *)
(* Python objects without __eq__/__hash__ (Terminal, NonTerminal) compare  *)
(* by identity: they carry an "id" field, the object's identity.  Objects  *)
(* with structural __eq__/__hash__ (Production, Item) are plain records.   *)
(* A frozenset/set is a set, a dict is a function, a list is a record      *)
(* [list |-> sequence] so that it can be told from a bare Production, and  *)
(* a str is the sequence of its characters.                                *)
(***************************************************************************)
EXTENDS Integers, Sequences, FiniteSets, TLC

VARIABLES
    productions,   \* argument of Grammar(...): the user's productions, in order
    start,         \* argument of Grammar(...): the designated start symbol
    grammar,       \* the Grammar object (NoGrammar before construction)
    pc,            \* position of the program
    call,          \* the operation being run and its argument
    item_set,      \* closure: local item_set
    queue,         \* closure: local queue (deque of items)
    results,       \* construct_all_transitions: local results (dict)
    state_queue,   \* construct_all_transitions: local queue (deque of states)
    computed,      \* history: how often each state's transition table was computed
    enqueued,      \* history: how often each item was put on the queue of closure
    ret            \* outcome of the operation: a returned value or a raised error

vars == <<productions, start, grammar, pc, call, item_set, queue, results,
          state_queue, computed, enqueued, ret>>

-----------------------------------------------------------------------------
(* Bounds of the model *)

\* most user productions in a generated grammar
MaxProds == 3

\* most items in an item set handed to closure / construct_transition
MaxItemSet == 2

\* cap on the length of the worklist of states (never reached by the code)
MaxQueue == 12

\* most characters in the text of a symbol that is constructed
MaxName == 2

\* most symbols in the body of a production that is compared with another
MaxEqBody == 1

\* most symbols in the body of an item that is displayed
MaxBody == 3

-----------------------------------------------------------------------------
(* grammar.py *)

Terminal(id, text, is_literal) ==
    [kind |-> "Terminal", id |-> id, name |-> text, is_literal |-> is_literal]

NonTerminal(id, name) ==
    [kind |-> "NonTerminal", id |-> id, name |-> name]

Production(non_terminal, production) ==
    [non_terminal |-> non_terminal, produces |-> production]

\* isinstance(x, NonTerminal)
IsNonTerminal(x) == x.kind = "NonTerminal"

\* Python's None
None == [kind |-> "None"]

\* outcome of a call: a value returned, or an exception raised
Return(v) == [raised |-> FALSE, value |-> v]

Raise(e) == [raised |-> TRUE, exc |-> e]

NoValue == [raised |-> FALSE]

\* Terminal and NonTerminal define neither __eq__ nor __hash__: they inherit
\* those of object, which compare and hash the identity of the object
object_eq(self, other) == self.id = other.id

object_hash(self) == self.id

RECURSIVE hash_tuple(_)
\* hash(tuple): a combination of the hashes of the elements, in their order,
\* within the width of a hash value
hash_tuple(hashes) ==
    IF hashes = <<>> THEN 7
    ELSE (31 * hash_tuple(SubSeq(hashes, 1, Len(hashes) - 1))
             + hashes[Len(hashes)]) % 65536

\* tuple.__eq__ for tuples of symbols: same length, and equal element by element
tuple_eq(a, b) ==
    /\ Len(a) = Len(b)
    /\ \A k \in 1..Len(a) : object_eq(a[k], b[k])

\* Production.__eq__ with the bodies left out of the comparison
Production_eq_heads_only(self, other) ==
    object_eq(self.non_terminal, other.non_terminal)

\* Production.__eq__
Production_eq(self, other) ==
    /\ object_eq(self.non_terminal, other.non_terminal)
    /\ tuple_eq(self.produces, other.produces)

\* Production.__hash__
Production_hash(self) ==
    hash_tuple(<< object_hash(self.non_terminal),
                  hash_tuple([k \in 1..Len(self.produces) |->
                                  object_hash(self.produces[k])]) >>)

RECURSIVE replace(_, _, _)
\* s.replace(old, new), old a single character
replace(s, old, new) ==
    IF s = <<>> THEN <<>>
    ELSE (IF Head(s) = old THEN new ELSE <<Head(s)>>) \o replace(Tail(s), old, new)

RECURSIVE join(_, _)
\* sep.join(parts)
join(sep, parts) ==
    IF parts = <<>> THEN <<>>
    ELSE IF Len(parts) = 1 THEN parts[1]
    ELSE parts[1] \o sep \o join(sep, Tail(parts))

\* Terminal.__str__
Terminal_str(self) ==
    IF self.is_literal
    THEN <<"\"">> \o replace(self.name, "\"", <<"\"", "\"">>) \o <<"\"">>
    ELSE <<"?">> \o replace(self.name, "?", <<"?", "?">>) \o <<"?">>

\* NonTerminal.__str__: the third assignment starts again from self.name, so
\* the result of the second is dropped
NonTerminal_str(self) ==
    LET visual_name_1 == self.name
        visual_name_2 == replace(visual_name_1, "\\", <<"\\", "\\">>)
        visual_name_3 == replace(replace(self.name, "<", <<"\\", "<">>),
                                 ">", <<"\\", ">">>)
    IN <<"<">> \o visual_name_3 \o <<">">>

\* str(symbol)
str(symbol) ==
    IF IsNonTerminal(symbol) THEN NonTerminal_str(symbol) ELSE Terminal_str(symbol)

-----------------------------------------------------------------------------
(* The symbols and productions of lr_parser_test.py, and a few more *)

ZERO == Terminal(1, <<"0">>, TRUE)

ONE == Terminal(2, <<"1">>, TRUE)

PLUS == Terminal(3, <<"+">>, TRUE)

STAR == Terminal(4, <<"*">>, TRUE)

B == NonTerminal(5, <<"B">>)

E == NonTerminal(6, <<"E">>)

\* a user non-terminal that happens to be named "S"
UserS == NonTerminal(7, <<"S">>)

Symbols == {ZERO, ONE, PLUS, STAR, B, E, UserS}

NonTerminals == {s \in Symbols : IsNonTerminal(s)}

PRODUCTION_E_E_STAR_B == Production(E, <<E, STAR, B>>)

PRODUCTION_E_E_PLUS_B == Production(E, <<E, PLUS, B>>)

PRODUCTION_E_B == Production(E, <<B>>)

PRODUCTION_B_ZERO == Production(B, <<ZERO>>)

PRODUCTION_B_ONE == Production(B, <<ONE>>)

PRODUCTIONS ==
    << PRODUCTION_E_E_STAR_B, PRODUCTION_E_E_PLUS_B, PRODUCTION_E_B,
       PRODUCTION_B_ZERO, PRODUCTION_B_ONE >>

\* productions the generated grammars are drawn from: left recursion, right
\* recursion (a self-loop of the automaton), mutual recursion, an empty body,
\* a user non-terminal named "S"
Pool ==
    << PRODUCTION_E_E_PLUS_B,
       PRODUCTION_E_B,
       PRODUCTION_B_ZERO,
       Production(B, <<ZERO, B>>),
       Production(B, <<E>>),
       Production(B, <<>>),
       Production(UserS, <<ONE>>),
       Production(E, <<UserS>>) >>

RECURSIVE Pick(_, _)
\* the productions of seq whose index is in idx, in the order of seq
Pick(seq, idx) ==
    IF seq = <<>> THEN <<>>
    ELSE LET n == Len(seq)
             front == Pick(SubSeq(seq, 1, n - 1), idx)
         IN IF n \in idx THEN Append(front, seq[n]) ELSE front

ProductionLists ==
    { Pick(Pool, idx) : idx \in {i \in SUBSET (1..Len(Pool)) : Cardinality(i) <= MaxProds} }
        \cup {PRODUCTIONS}

StartSymbols == {E, UserS}

-----------------------------------------------------------------------------
(* lr_parser.py: Item *)

Item(rule, parse_position) ==
    [rule |-> rule, parse_position |-> parse_position]

expecting_symbol(item) ==
    IF item.parse_position >= Len(item.rule.produces)
    THEN None
    ELSE item.rule.produces[item.parse_position + 1]

\* Item.__eq__
Item_eq(self, other) ==
    /\ Production_eq(self.rule, other.rule)
    /\ self.parse_position = other.parse_position

\* Item.__hash__
Item_hash(self) ==
    hash_tuple(<<Production_hash(self.rule), self.parse_position>>)

\* Item.__str__
Item_str(self) ==
    LET before_point == SubSeq(self.rule.produces, 1, self.parse_position)
        after_point == SubSeq(self.rule.produces, self.parse_position + 1,
                              Len(self.rule.produces))
        produce_str == [k \in 1..Len(before_point) |-> str(before_point[k])]
                           \o << <<"@">> >>
                           \o [k \in 1..Len(after_point) |-> str(after_point[k])]
    IN str(self.rule.non_terminal) \o <<" ", "-", ">", " ">>
           \o join(<<" ">>, produce_str)

advance_skipping(item) ==
    IF item.parse_position >= Len(item.rule.produces)
    THEN Raise("ValueError")
    ELSE Return(Item(item.rule, item.parse_position + 2))

advance(item) ==
    IF item.parse_position >= Len(item.rule.produces)
    THEN Raise("ValueError")
    ELSE Return(Item(item.rule, item.parse_position + 1))

-----------------------------------------------------------------------------
(* lr_parser.py: Grammar *)

NoGrammar == [constructed |-> FALSE]

PyList(seq) == [list |-> seq]

IsList(v) == "list" \in DOMAIN v

\* the identity of a newly allocated object: distinct from every live object
NewIdentity(live) ==
    IF live = {} THEN 1
    ELSE 1 + (CHOOSE m \in {s.id : s \in live} : \A s \in live : s.id <= m)

\* a new object that reuses the identity of a live object of the same name
\* (symbols interned by name)
NewNonTerminalInterned(name, live) ==
    IF \E s \in live : IsNonTerminal(s) /\ s.name = name
    THEN CHOOSE s \in live : IsNonTerminal(s) /\ s.name = name
    ELSE NonTerminal(NewIdentity(live), name)

\* _grammar.NonTerminal(name), constructed while the objects of live exist
NewNonTerminal(name, live) ==
    NonTerminal(NewIdentity(live), name)

\* d[key] = [value]: the productions recorded before under key are lost
SetDefaultOverwrite(d, key, value) ==
    [k \in DOMAIN d \cup {key} |-> IF k = key THEN PyList(<<value>>) ELSE d[k]]

\* d.setdefault(key, []).append(value)
SetDefaultAppend(d, key, value) ==
    IF key \in DOMAIN d
    THEN [d EXCEPT ![key] = PyList(Append(d[key].list, value))]
    ELSE [k \in DOMAIN d \cup {key} |-> IF k = key THEN PyList(<<value>>) ELSE d[k]]

\* d[key] = value
SetItem(d, key, value) ==
    [k \in DOMAIN d \cup {key} |-> IF k = key THEN value ELSE d[k]]

EmptyDict == [k \in {} |-> None]

\* d.get(key, 0)
Count(d, key) == IF key \in DOMAIN d THEN d[key] ELSE 0

RECURSIVE IndexProductions(_)
\* the loop of Grammar.__init__ over productions
IndexProductions(prods) ==
    IF prods = <<>> THEN EmptyDict
    ELSE LET n == Len(prods)
         IN SetDefaultAppend(IndexProductions(SubSeq(prods, 1, n - 1)),
                             prods[n].non_terminal, prods[n])

\* Grammar.__init__(productions, starting_symbol)
GrammarNew(prods, starting_symbol) ==
    LET indexed == IndexProductions(prods)
        s == NewNonTerminal(<<"S">>, Symbols)
        p == Production(s, <<starting_symbol>>)
    IN [constructed |-> TRUE,
        indexed_productions |-> SetItem(indexed, s, p),
        starting_symbol |-> s,
        starting_production |-> p]

\* productions_of on a defaultdict(list): no productions for a missing key
productions_of_or_empty(g, non_terminal) ==
    IF non_terminal \in DOMAIN g.indexed_productions
    THEN Return(g.indexed_productions[non_terminal])
    ELSE Return(PyList(<<>>))

\* Grammar.productions_of(non_terminal): KeyError when the key is missing
productions_of(g, non_terminal) ==
    IF non_terminal \in DOMAIN g.indexed_productions
    THEN Return(g.indexed_productions[non_terminal])
    ELSE Raise("KeyError")

\* the productions of the augmented grammar: the user's and the synthetic one
GrammarProductions(g, prods) ==
    {prods[i] : i \in 1..Len(prods)} \cup {g.starting_production}

\* the items of the augmented grammar: a production with a position in its body
GrammarItems(g, prods) ==
    UNION { {Item(p, k) : k \in 0..Len(p.produces)} : p \in GrammarProductions(g, prods) }

-----------------------------------------------------------------------------------------------------------------------------------------------------
(* Python containers *)

RECURSIVE Orderings(_)
\* the orders in which the elements of a set (or the keys of a dict filled from
\* a set) can be iterated: the order is a matter of the hashes, which for
\* objects hashed by identity differ from run to run
Orderings(S) ==
    IF S = {} THEN {<<>>}
    ELSE UNION { { <<x>> \o q : q \in Orderings(S \ {x}) } : x \in S }

RECURSIVE SomeOrdering(_)
\* one of the orders of Orderings(S)
SomeOrdering(S) ==
    IF S = {} THEN <<>>
    ELSE CHOOSE q \in { <<x>> \o SomeOrdering(S \ {x}) : x \in {CHOOSE y \in S : TRUE} } : TRUE

\* a deque pop that also discards every entry before position i
pop_truncating(q, i) ==
    [item |-> q[i], rest |-> SubSeq(q, i + 1, Len(q))]

\* taking entry i off a deque; queue.popleft() is pop(queue, 1)
pop(q, i) ==
    [item |-> q[i], rest |-> SubSeq(q, 1, i - 1) \o SubSeq(q, i + 1, Len(q))]

-----------------------------------------------------------------------------
(* lr_parser.py: closure *)

RECURSIVE add_productions_no_enqueue(_, _, _)
\* the for loop of closure with the queue.append(item) forgotten
add_productions_no_enqueue(items, q, prods) ==
    IF prods = <<>> THEN [item_set |-> items, queue |-> q]
    ELSE LET item == Item(Head(prods), 0)
         IN IF item \notin items
            THEN add_productions_no_enqueue(items \cup {item}, q, Tail(prods))
            ELSE add_productions_no_enqueue(items, q, Tail(prods))

RECURSIVE add_productions_enqueue_twice(_, _, _)
\* the for loop of closure with every new item appended to the queue twice
add_productions_enqueue_twice(items, q, prods) ==
    IF prods = <<>> THEN [item_set |-> items, queue |-> q]
    ELSE LET item == Item(Head(prods), 0)
         IN IF item \notin items
            THEN add_productions_enqueue_twice(items \cup {item},
                                               Append(Append(q, item), item),
                                               Tail(prods))
            ELSE add_productions_enqueue_twice(items, q, Tail(prods))

RECURSIVE add_productions(_, _, _)
\* the for loop of closure over the productions of the expected non-terminal
add_productions(items, q, prods) ==
    IF prods = <<>> THEN [item_set |-> items, queue |-> q]
    ELSE LET item == Item(Head(prods), 0)
         IN IF item \notin items
            THEN add_productions(items \cup {item}, Append(q, item), Tail(prods))
            ELSE add_productions(items, q, Tail(prods))

\* one iteration of the while loop of closure, taking entry i of the queue:
\* the new item_set and queue and the items appended to the queue, or the
\* error raised
closure_step(items, q, i, g) ==
    LET popped == pop(q, i)
        parser_expecting_symbol == expecting_symbol(popped.item)
    IN IF parser_expecting_symbol = None
       THEN [raised |-> FALSE, item_set |-> items, queue |-> popped.rest,
             appended |-> <<>>]
       ELSE IF IsNonTerminal(parser_expecting_symbol)
       THEN LET found == productions_of(g, parser_expecting_symbol)
            IN IF found.raised THEN found
               ELSE IF ~IsList(found.value) THEN Raise("TypeError")
               ELSE LET added == add_productions(items, popped.rest, found.value.list)
                    IN [raised |-> FALSE, item_set |-> added.item_set,
                        queue |-> added.queue,
                        appended |-> SubSeq(added.queue, Len(popped.rest) + 1,
                                            Len(added.queue))]
       ELSE [raised |-> FALSE, item_set |-> items, queue |-> popped.rest,
             appended |-> <<>>]

RECURSIVE closure_loop(_, _, _)
\* the while loop of closure, first in first out (step is bound to the outcome
\* of one iteration, which is so evaluated once)
closure_loop(items, q, g) ==
    IF q = <<>> THEN Return(items)
    ELSE CHOOSE outcome \in
            { IF step.raised THEN step
              ELSE closure_loop(step.item_set, step.queue, g) :
                  step \in {closure_step(items, q, 1, g)} } : TRUE

\* closure(item_set, grammar), the queue filled in one of the possible orders
closure(items, g) ==
    CHOOSE outcome \in
        { closure_loop(entry.item_set, entry.queue, g) :
              entry \in {[item_set |-> items, queue |-> SomeOrdering(items)]} } : TRUE

-----------------------------------------------------------------------------
(* lr_parser.py: construct_transition *)

\* the set symbols of construct_transition
expected_symbols(items) ==
    {expecting_symbol(item) : item \in items} \ {None}

\* new_item_set with the test item.expecting_symbol == symbol forgotten: every
\* item of the set is advanced
advanced_items_unfiltered(items, symbol) ==
    LET moved == {advance(item) : item \in items}
    IN IF \E m \in moved : m.raised
       THEN CHOOSE m \in moved : m.raised
       ELSE Return({m.value : m \in moved})

\* the new_item_set of construct_transition for one symbol, or the error of advance
advanced_items(items, symbol) ==
    LET moved == {advance(item) : item \in {it \in items : expecting_symbol(it) = symbol}}
    IN IF \E m \in moved : m.raised
       THEN CHOOSE m \in moved : m.raised
       ELSE Return({m.value : m \in moved})

\* result[symbol] = new_item_set, the call of closure forgotten
successor_unclosed(items, symbol, g) ==
    advanced_items(items, symbol)

\* the value stored under result[symbol], or the error raised on the way
successor(items, symbol, g) ==
    LET new_item_set == advanced_items(items, symbol)
    IN IF new_item_set.raised THEN new_item_set
       ELSE closure(new_item_set.value, g)

\* construct_transition(item_set, grammar)
construct_transition(items, g) ==
    LET symbols == expected_symbols(items)
    IN IF \E symbol \in symbols : successor(items, symbol, g).raised
       THEN successor(items, CHOOSE symbol \in symbols :
                                 successor(items, symbol, g).raised, g)
       ELSE Return([symbol \in symbols |-> successor(items, symbol, g).value])

-----
(* The program *)

Init ==
    /\ productions \in ProductionLists
    /\ start \in StartSymbols
    /\ grammar = NoGrammar
    /\ pc = "start"
    /\ call = [op |-> "none"]
    /\ item_set = {}
    /\ queue = <<>>
    /\ results = EmptyDict
    /\ state_queue = <<>>
    /\ computed = EmptyDict
    /\ enqueued = EmptyDict
    /\ ret = NoValue

\* grammar = Grammar(productions, start)
GrammarInit ==
    /\ pc = "start"
    /\ grammar' = GrammarNew(productions, start)
    /\ pc' = "idle"
    /\ UNCHANGED <<productions, start, call, item_set, queue, results,
                   state_queue, computed, ret, enqueued>>

\* item.advance() for an item of the grammar
CallAdvance ==
    /\ pc = "idle"
    /\ \E item \in GrammarItems(grammar, productions) :
        /\ call' = [op |-> "advance", item |-> item]
        /\ ret' = advance(item)
    /\ pc' = "done"
    /\ UNCHANGED <<productions, start, grammar, item_set, queue, results,
                   state_queue, computed, enqueued>>

\* grammar.productions_of(non_terminal)
CallProductionsOf ==
    /\ pc = "idle"
    /\ \E n \in NonTerminals \cup {grammar.starting_symbol} :
        /\ call' = [op |-> "productions_of", non_terminal |-> n]
        /\ ret' = productions_of(grammar, n)
    /\ pc' = "done"
    /\ UNCHANGED <<productions, start, grammar, item_set, queue, results,
                   state_queue, computed, enqueued>>

\* the item sets handed to closure and construct_transition: small sets of
\* items of the grammar
SmallItemSets(g, prods) ==
    {X \in SUBSET GrammarItems(g, prods) : Cardinality(X) <= MaxItemSet}

\* closure(X, grammar) is entered: item_set = set(item_set), queue = deque(item_set)
CallClosure ==
    /\ pc = "idle"
    /\ \E X \in SmallItemSets(grammar, productions) :
        /\ call' = [op |-> "closure", item_set |-> X]
        /\ item_set' = X
        /\ \E q \in Orderings(X) : queue' = q
        /\ enqueued' = [item \in X |-> 1]
    /\ pc' = "closure"
    /\ UNCHANGED <<productions, start, grammar, results, state_queue, computed, ret>>

RECURSIVE CountAll(_, _)
\* the counts d with every entry of the sequence items counted once more
CountAll(d, items) ==
    IF items = <<>> THEN d
    ELSE CountAll(SetItem(d, Head(items), 1 + Count(d, Head(items))), Tail(items))

\* the body of the while loop of closure, run on entry i of the queue
ClosureIteration(i) ==
    \E step \in {closure_step(item_set, queue, i, grammar)} :
        IF step.raised
        THEN /\ ret' = step
             /\ pc' = "done"
             /\ UNCHANGED <<item_set, queue, enqueued>>
        ELSE /\ item_set' = step.item_set
             /\ queue' = step.queue
             /\ enqueued' = CountAll(enqueued, step.appended)
             /\ UNCHANGED <<pc, ret>>

\* one iteration of the while loop of closure: item = queue.popleft() ...
ClosureStep ==
    /\ pc = "closure"
    /\ queue # <<>>
    /\ ClosureIteration(1)
    /\ UNCHANGED <<productions, start, grammar, call, results, state_queue, computed>>

\* the while loop of closure ends: return item_set
ClosureReturn ==
    /\ pc = "closure"
    /\ queue = <<>>
    /\ ret' = Return(item_set)
    /\ pc' = "done"
    /\ UNCHANGED <<productions, start, grammar, call, item_set, queue, results,
                   state_queue, computed, enqueued>>

\* the item sets handed to construct_transition: small sets and their closures
TransitionInputs(g, prods) ==
    SmallItemSets(g, prods) \cup
        { closure(X, g).value : X \in {Y \in SmallItemSets(g, prods) : ~closure(Y, g).raised} }

\* construct_transition(I, grammar)
CallConstructTransition ==
    /\ pc = "idle"
    /\ \E I \in TransitionInputs(grammar, productions) :
        /\ call' = [op |-> "construct_transition", item_set |-> I]
        /\ ret' = construct_transition(I, grammar)
    /\ pc' = "done"
    /\ UNCHANGED <<productions, start, grammar, item_set, queue, results,
                   state_queue, computed, enqueued>>

\* the test "if item_set in results: continue" forgotten
already_processed_never(state, res) == FALSE

\* item_set in results
already_processed(state, res) == state \in DOMAIN res

\* construct_all_transitions(grammar) is entered: the first item set is closed
\* and queued
CallConstructAll ==
    /\ pc = "idle"
    /\ call' = [op |-> "construct_all_transitions"]
    /\ \E first_item_set \in {closure({Item(grammar.starting_production, 0)}, grammar)} :
          IF first_item_set.raised
          THEN /\ ret' = first_item_set
               /\ pc' = "done"
               /\ UNCHANGED <<results, state_queue>>
          ELSE /\ results' = EmptyDict
               /\ state_queue' = <<first_item_set.value>>
               /\ pc' = "all"
               /\ ret' = ret
    /\ UNCHANGED <<productions, start, grammar, item_set, queue, computed, enqueued>>

\* queue.extend(transitions.values()) forgotten
extend_nothing(q, transitions, order) == q

\* queue.extend(transitions.values()), the values taken in the given order of
\* the keys
extend(q, transitions, order) ==
    q \o [k \in 1..Len(order) |-> transitions[order[k]]]

\* one iteration of the while loop of construct_all_transitions, taking entry
\* i of the queue, up to the call of queue.extend: the error raised, or the new
\* results, the rest of the queue and the transitions whose values are to be
\* queued (fresh: the state was not in results)
all_step(res, q, i, g) ==
    LET popped == pop(q, i)
    IN IF already_processed(popped.item, res)
       THEN [raised |-> FALSE, fresh |-> FALSE, item_set |-> popped.item,
             results |-> res, rest |-> popped.rest, transitions |-> EmptyDict]
       ELSE LET transitions == construct_transition(popped.item, g)
            IN IF transitions.raised THEN transitions
               ELSE [raised |-> FALSE, fresh |-> TRUE, item_set |-> popped.item,
                     results |-> SetItem(res, popped.item, transitions.value),
                     rest |-> popped.rest, transitions |-> transitions.value]

RECURSIVE all_loop(_, _, _)
\* the while loop of construct_all_transitions, first in first out
all_loop(res, q, g) ==
    IF q = <<>> THEN Return(res)
    ELSE CHOOSE outcome \in
            { IF step.raised THEN step
              ELSE all_loop(step.results,
                            extend(step.rest, step.transitions,
                                   SomeOrdering(DOMAIN step.transitions)), g) :
                  step \in {all_step(res, q, 1, g)} } : TRUE

\* construct_all_transitions(grammar), each dict iterated in one of the
\* possible orders
construct_all_transitions(g) ==
    CHOOSE outcome \in
        { IF first_item_set.raised THEN first_item_set
          ELSE all_loop(EmptyDict, <<first_item_set.value>>, g) :
              first_item_set \in {closure({Item(g.starting_production, 0)}, g)} } : TRUE

\* the successors to queue: all of them, or (filtered) only those that are
\* neither recorded nor waiting in the queue
to_queue(successors, res, waiting, filtered) ==
    IF filtered
    THEN SelectSeq(successors,
                   LAMBDA s : s \notin DOMAIN res
                              /\ \A k \in 1..Len(waiting) : waiting[k] # s)
    ELSE successors

\* the body of the while loop of construct_all_transitions, run on entry i of
\* the queue, the successors queued in the order the dict transitions yields
\* them: any order (every_order), or one of them where the entry taken from the
\* queue is open anyway
AllIteration(i, filtered, every_order) ==
    \E step \in {all_step(results, state_queue, i, grammar)} :
        IF step.raised
        THEN /\ ret' = step
             /\ pc' = "done"
             /\ UNCHANGED <<results, state_queue, computed>>
        ELSE /\ results' = step.results
             /\ computed' = IF step.fresh
                            THEN SetItem(computed, step.item_set,
                                         1 + Count(computed, step.item_set))
                            ELSE computed
             /\ \E order \in (IF every_order
                              THEN Orderings(DOMAIN step.transitions)
                              ELSE {SomeOrdering(DOMAIN step.transitions)}) :
                    state_queue' = step.rest \o
                        to_queue(extend(<<>>, step.transitions, order),
                                 step.results, step.rest, filtered)
             /\ UNCHANGED <<pc, ret>>

\* one iteration of the while loop of construct_all_transitions
AllStep ==
    /\ pc = "all"
    /\ state_queue # <<>>
    /\ Len(state_queue) <= MaxQueue
    /\ AllIteration(1, FALSE, TRUE)
    /\ UNCHANGED <<productions, start, grammar, call, item_set, queue, enqueued>>

\* the while loop of construct_all_transitions ends: return results
AllReturn ==
    /\ pc = "all"
    /\ state_queue = <<>>
    /\ ret' = Return(results)
    /\ pc' = "done"
    /\ UNCHANGED <<productions, start, grammar, call, item_set, queue, results,
                   state_queue, computed, enqueued>>

Next ==
    \/ GrammarInit
    \/ CallAdvance
    \/ CallProductionsOf
    \/ CallClosure
    \/ ClosureStep
    \/ ClosureReturn
    \/ CallConstructTransition
    \/ CallConstructAll
    \/ AllStep
    \/ AllReturn

Spec == Init /\ [][Next]_vars

\* the while loop of closure with the choice of the entry taken from the
\* worklist left open
ClosureStepAnyOrder ==
    /\ pc = "closure"
    /\ queue # <<>>
    /\ \E i \in 1..Len(queue) : ClosureIteration(i)
    /\ UNCHANGED <<productions, start, grammar, call, results, state_queue, computed>>

\* the while loop of construct_all_transitions with the choice of the entry
\* taken from the worklist left open, and with duplicates queued or not
AllStepAnyOrder ==
    /\ pc = "all"
    /\ state_queue # <<>>
    /\ Len(state_queue) <= MaxQueue
    /\ \E i \in 1..Len(state_queue) : \E filtered \in BOOLEAN :
           AllIteration(i, filtered, FALSE)
    /\ UNCHANGED <<productions, start, grammar, call, item_set, queue, enqueued>>

\* closure and construct_all_transitions with their worklists processed in
\* any order
NextAnyOrder ==
    \/ GrammarInit
    \/ CallClosure
    \/ ClosureStepAnyOrder
    \/ ClosureReturn
    \/ CallConstructAll
    \/ AllStepAnyOrder
    \/ AllReturn

SpecAnyOrder == Init /\ [][NextAnyOrder]_vars

\* construct_all_transitions alone: a sequential program, which takes its next
\* step whenever it has one
NextAll ==
    \/ GrammarInit
    \/ CallConstructAll
    \/ AllStep
    \/ AllReturn

FairSpec == Init /\ [][NextAll]_vars /\ WF_vars(NextAll)

\* closure alone: a sequential program, which takes its next step whenever it
\* has one
NextClosure ==
    \/ GrammarInit
    \/ CallClosure
    \/ ClosureStep
    \/ ClosureReturn

FairClosureSpec == Init /\ [][NextClosure]_vars /\ WF_vars(NextClosure)

-----------------------------------------------------------------------------
(* The value objects on their own: construction, ==, hash, str *)

\* the strings of at most n characters of alphabet
Texts(alphabet, n) == UNION { [1..k -> alphabet] : k \in 0..n }

\* the arguments two symbols to be compared are constructed with
SymbolArguments ==
    [kind : {"Terminal"}, text : Texts({"a", "<"}, MaxName), is_literal : BOOLEAN]
        \cup [kind : {"NonTerminal"}, text : Texts({"a", "<"}, MaxName)]

\* Terminal(text, is_literal) or NonTerminal(name), constructed while the
\* objects of live exist
NewSymbol(arguments, live) ==
    IF arguments.kind = "Terminal"
    THEN Terminal(NewIdentity(live), arguments.text, arguments.is_literal)
    ELSE NonTerminal(NewIdentity(live), arguments.text)

\* a = Terminal(...) or NonTerminal(...); b = a second one of the same class
\* (or a itself); a == b, hash(a), hash(b), b in {a} (a set holds b when it
\* has an element of the same hash that is equal to b)
CallSymbolEq ==
    /\ pc = "start"
    /\ \E x \in SymbolArguments, y \in SymbolArguments, same \in BOOLEAN :
        /\ x.kind = y.kind
        /\ same => x = y
        /\ \E a \in {NewSymbol(x, Symbols)} :
           \E b \in {IF same THEN a ELSE NewSymbol(y, Symbols \cup {a})} :
            /\ call' = [op |-> "symbol_eq", a |-> a, b |-> b]
            /\ ret' = Return([eq |-> object_eq(a, b),
                              hash_a |-> object_hash(a),
                              hash_b |-> object_hash(b),
                              found |-> \E c \in {a} :
                                            /\ object_hash(c) = object_hash(b)
                                            /\ object_eq(c, b)])
    /\ pc' = "done"
    /\ UNCHANGED <<productions, start, grammar, item_set, queue, results,
                   state_queue, computed, enqueued>>

\* the symbols the productions to be compared are built from: among them a
\* second non-terminal named E
EqSymbols == {E, STAR, NewNonTerminal(E.name, Symbols)}

\* the productions to be compared
EqProductions ==
    { Production(head, body) :
          head \in {s \in EqSymbols : IsNonTerminal(s)},
          body \in Texts(EqSymbols, MaxEqBody) }

\* a = Production(...); b = Production(...); a == b, hash(a), hash(b)
CallProductionEq ==
    /\ pc = "start"
    /\ \E a \in EqProductions, b \in EqProductions :
        /\ call' = [op |-> "production_eq", a |-> a, b |-> b]
        /\ ret' = Return([eq |-> Production_eq(a, b),
                          hash_a |-> Production_hash(a),
                          hash_b |-> Production_hash(b)])
    /\ pc' = "done"
    /\ UNCHANGED <<productions, start, grammar, item_set, queue, results,
                   state_queue, computed, enqueued>>

\* the items to be compared
EqItems ==
    UNION { {Item(p, k) : k \in 0..Len(p.produces)} : p \in EqProductions }

\* a = Item(...); b = Item(...); a == b, hash(a), hash(b), a == a.advance()
CallItemEq ==
    /\ pc = "start"
    /\ \E a \in EqItems, b \in EqItems :
        /\ call' = [op |-> "item_eq", a |-> a, b |-> b]
        /\ ret' = Return([eq |-> Item_eq(a, b),
                          hash_a |-> Item_hash(a),
                          hash_b |-> Item_hash(b),
                          advanced |-> ~advance(a).raised,
                          advanced_eq |-> IF advance(a).raised THEN FALSE
                                          ELSE Item_eq(a, advance(a).value)])
    /\ pc' = "done"
    /\ UNCHANGED <<productions, start, grammar, item_set, queue, results,
                   state_queue, computed, enqueued>>

\* str(NonTerminal(name))
CallNonTerminalStr ==
    /\ pc = "start"
    /\ \E name \in Texts({"a", "<", ">", "\\"}, MaxName) :
       \E a \in {NewNonTerminal(name, Symbols)} :
        /\ call' = [op |-> "non_terminal_str", a |-> a]
        /\ ret' = Return(NonTerminal_str(a))
    /\ pc' = "done"
    /\ UNCHANGED <<productions, start, grammar, item_set, queue, results,
                   state_queue, computed, enqueued>>

\* the symbols of the items to be displayed: those of E -> E * B, and a
\* terminal that is no literal
DisplaySymbols == {E, STAR, B, Terminal(NewIdentity(Symbols), <<"n", "?">>, FALSE)}

\* the items to be displayed
DisplayItems ==
    UNION { {Item(Production(head, body), k) : k \in 0..Len(body)} :
                head \in {E, B}, body \in Texts(DisplaySymbols, MaxBody) }

\* str(Item(...))
CallItemStr ==
    /\ pc = "start"
    /\ \E a \in DisplayItems :
        /\ call' = [op |-> "item_str", a |-> a]
        /\ ret' = Return(Item_str(a))
    /\ pc' = "done"
    /\ UNCHANGED <<productions, start, grammar, item_set, queue, results,
                   state_queue, computed, enqueued>>

\* the symbols of lr_parser_test.py exist
InitObjects ==
    /\ Init
    /\ productions = PRODUCTIONS
    /\ start = E

NextObjects ==
    \/ CallSymbolEq
    \/ CallProductionEq
    \/ CallItemEq
    \/ CallNonTerminalStr
    \/ CallItemStr

SpecObjects == InitObjects /\ [][NextObjects]_vars

-----------------------------------------------------------------------------
(* Item.advance *)

\* C8: advance() on an item whose position equals the length of its body
\* raises ValueError and yields no item; on any other item of the grammar it
\* returns an item of the same production with the position one greater.
C8_Advance ==
    (pc = "done" /\ call.op = "advance") =>
        IF call.item.parse_position = Len(call.item.rule.produces)
        THEN ret = Raise("ValueError")
        ELSE /\ ~ret.raised
             /\ ret.value.parse_position = call.item.parse_position + 1
             /\ ret.value.rule = call.item.rule
             /\ ret.value # call.item

\* advance() was called on a completed item of a three-symbol body and failed
C8_Witness ==
    /\ pc = "done"
    /\ call.op = "advance"
    /\ call.item.parse_position = 3
    /\ Len(call.item.rule.produces) = 3
    /\ ret.raised

-----------------------------------------------------------------------------
(* Grammar *)

\* the user's productions whose head is n, in the order they were supplied
SuppliedProductionsOf(n) ==
    SelectSeq(productions, LAMBDA p : p.non_terminal = n)

\* the heads of the user's productions
SuppliedHeads ==
    {productions[i].non_terminal : i \in 1..Len(productions)}

\* C9: productions_of(starting_symbol) returns a sequence of productions whose
\* only element is starting_production, in the form of every other head's entry.
C9_StartEntryIsList ==
    (pc = "done" /\ call.op = "productions_of"
        /\ call.non_terminal = grammar.starting_symbol) =>
        ret = Return(PyList(<<grammar.starting_production>>))

\* C10: the synthetic start symbol is distinct from every user non-terminal,
\* also from one named "S", and productions_of(N) still returns all of the
\* user's productions of N for every user head N.
C10_StartSymbolFresh ==
    grammar.constructed =>
        /\ grammar.starting_symbol \notin Symbols
        /\ \A n \in SuppliedHeads :
               productions_of(grammar, n) = Return(PyList(SuppliedProductionsOf(n)))

\* a grammar was built from productions that define a non-terminal named "S"
C10_Witness ==
    /\ grammar.constructed
    /\ UserS \in SuppliedHeads
    /\ grammar.starting_symbol.name = UserS.name
    /\ productions_of(grammar, UserS) = Return(PyList(SuppliedProductionsOf(UserS)))

-----------------------------------------------------------------------------
(* closure *)

\* the productions of non-terminal n in the augmented grammar, read off the
\* arguments the grammar was built from
AugmentedProductionsOf(n) ==
    {p \in GrammarProductions(grammar, productions) : p.non_terminal = n}

\* Y has Item(p, 0) for every production p of every non-terminal one of its
\* items expects
IsClosed(Y) ==
    \A item \in Y :
        IsNonTerminal(expecting_symbol(item)) =>
            \A p \in AugmentedProductionsOf(expecting_symbol(item)) : Item(p, 0) \in Y

\* V is the smallest closed item set that contains X: it is one, and taking
\* any items away from it leaves no other
IsSmallestClosure(V, X) ==
    /\ X \subseteq V
    /\ IsClosed(V)
    /\ \A D \in SUBSET (V \ X) : D # {} => ~IsClosed(V \ D)

\* C1: when closure(X, G) returns, its result is the smallest item set that
\* contains X and, for every item of it that expects a non-terminal N,
\* Item(p, 0) for every production p of N.
C1_ClosureSmallest ==
    (pc = "done" /\ call.op = "closure" /\ ~ret.raised) =>
        IsSmallestClosure(ret.value, call.item_set)

\* closure returned a set with at least three items more than it was given
C1_Witness ==
    /\ pc = "done"
    /\ call.op = "closure"
    /\ ~ret.raised
    /\ Cardinality(ret.value) >= Cardinality(call.item_set) + 3

\* C6: closure(closure(X, G), G) = closure(X, G).
C6_ClosureIdempotent ==
    (pc = "done" /\ call.op = "closure" /\ ~ret.raised) =>
        closure(ret.value, grammar) = Return(ret.value)

\* closure returned a proper superset of a non-empty argument, and closing the
\* result again returned it unchanged
C6_Witness ==
    /\ pc = "done"
    /\ call.op = "closure"
    /\ ~ret.raised
    /\ call.item_set # {}
    /\ ret.value # call.item_set
    /\ closure(ret.value, grammar) = Return(ret.value)

-----------------------------------------------------------------------------
(* construct_transition *)

\* the items of I that expect symbol x, each moved one symbol on
Kernel(I, x) ==
    {Item(item.rule, item.parse_position + 1) :
        item \in {it \in I : expecting_symbol(it) = x}}

\* C3: when construct_transition(I, G) returns, the keys of the mapping are
\* exactly the symbols the items of I expect, and the value under X is the
\* closure of the items of I that expect X, advanced.
C3_TransitionIsGoto ==
    (pc = "done" /\ call.op = "construct_transition" /\ ~ret.raised) =>
        /\ DOMAIN ret.value = {expecting_symbol(item) : item \in call.item_set} \ {None}
        /\ \A x \in DOMAIN ret.value :
               /\ IsSmallestClosure(ret.value[x], Kernel(call.item_set, x))
               /\ closure(Kernel(call.item_set, x), grammar) = Return(ret.value[x])

\* construct_transition returned a table with several symbols, one of them
\* leading to a state that closure had to extend, for an item set in which
\* some item expects nothing
C3_Witness ==
    /\ pc = "done"
    /\ call.op = "construct_transition"
    /\ ~ret.raised
    /\ Cardinality(DOMAIN ret.value) >= 2
    /\ \E item \in call.item_set : expecting_symbol(item) = None
    /\ \E x \in DOMAIN ret.value : ret.value[x] # Kernel(call.item_set, x)

-----------------------------------------------------------------------------
(* construct_all_transitions on the grammar of lr_parser_test.py *)

\* the states the test names
state_large_start ==
    { Item(grammar.starting_production, 0),
      Item(PRODUCTION_E_E_STAR_B, 0), Item(PRODUCTION_E_E_PLUS_B, 0),
      Item(PRODUCTION_E_B, 0), Item(PRODUCTION_B_ZERO, 0), Item(PRODUCTION_B_ONE, 0) }

state_finish_zero == { Item(PRODUCTION_B_ZERO, 1) }

state_finish_e ==
    { Item(grammar.starting_production, 1),
      Item(PRODUCTION_E_E_STAR_B, 1), Item(PRODUCTION_E_E_PLUS_B, 1) }

state_finish_star ==
    { Item(PRODUCTION_E_E_STAR_B, 2), Item(PRODUCTION_B_ZERO, 0), Item(PRODUCTION_B_ONE, 0) }

state_finish_e_star_b == { Item(PRODUCTION_E_E_STAR_B, 3) }

\* construct_all_transitions has returned for the grammar of the test
TestGrammarDone ==
    /\ pc = "done"
    /\ call.op = "construct_all_transitions"
    /\ productions = PRODUCTIONS
    /\ start = E

\* C4: for E -> E * B | E + B | B, B -> 0 | 1 with start symbol E the result has
\* exactly 9 states; the initial state is the six-item closure of S -> . E; from
\* it 0 leads to {B -> 0 .} and E to {S -> E ., E -> E . * B, E -> E . + B};
\* from there * leads to {E -> E * . B, B -> . 0, B -> . 1}; from there B leads
\* to {E -> E * B .}, whose transition table is empty.
C4_TestGrammarAutomaton ==
    TestGrammarDone =>
        /\ ~ret.raised
        /\ Cardinality(DOMAIN ret.value) = 9
        /\ closure({Item(grammar.starting_production, 0)}, grammar) = Return(state_large_start)
        /\ state_large_start \in DOMAIN ret.value
        /\ ret.value[state_large_start][ZERO] = state_finish_zero
        /\ ret.value[state_large_start][E] = state_finish_e
        /\ ret.value[state_finish_e][STAR] = state_finish_star
        /\ ret.value[state_finish_star][B] = state_finish_e_star_b
        /\ DOMAIN ret.value[state_finish_e_star_b] = {}

\* construct_all_transitions returned an automaton for the grammar of the test
C4_Witness ==
    /\ TestGrammarDone
    /\ ~ret.raised
    /\ state_finish_e_star_b \in DOMAIN ret.value

-----------------------------------------------------------------------------
(* construct_all_transitions: termination and the states found *)

\* the items that the items of Y demand: Item(p, 0) for the productions p of
\* the non-terminals they expect
Demanded(Y) ==
    { Item(p, 0) : p \in UNION { AugmentedProductionsOf(expecting_symbol(item)) :
                                 item \in {it \in Y : IsNonTerminal(expecting_symbol(it))} } }

RECURSIVE LeastClosed(_)
\* the least closed item set that contains Y
LeastClosed(Y) ==
    IF Demanded(Y) \subseteq Y THEN Y ELSE LeastClosed(Y \cup Demanded(Y))

\* the state reached from state I on symbol x
Goto(I, x) == LeastClosed(Kernel(I, x))

RECURSIVE ReachableFrom(_)
\* the states reachable from the states of T by following transitions
ReachableFrom(T) ==
    LET more == {Goto(I, x) : <<I, x>> \in
                    UNION { {<<J, y>> : y \in {expecting_symbol(item) : item \in J} \ {None}} :
                            J \in T }}
    IN IF more \subseteq T THEN T ELSE ReachableFrom(T \cup more)

\* the states reachable from closure({Item(starting_production, 0)})
ReachableStates ==
    ReachableFrom({LeastClosed({Item(grammar.starting_production, 0)})})

\* construct_all_transitions has returned a result
ConstructAllReturned ==
    /\ pc = "done"
    /\ call.op = "construct_all_transitions"
    /\ ~ret.raised

\* the keys of the result are the reachable states, and each had its transition
\* table computed and recorded once
ReachableStatesOnce ==
    ConstructAllReturned =>
        /\ DOMAIN ret.value = ReachableStates
        /\ DOMAIN computed = DOMAIN ret.value
        /\ \A s \in DOMAIN computed : computed[s] = 1

\* C2: construct_all_transitions always terminates, also when the automaton
\* has cycles, and every state reachable from the initial state appears
\* exactly once as a key of the result.
C2_TerminatesWithReachableStates ==
    /\ <>(pc = "done")
    /\ []ReachableStatesOnce

\* construct_all_transitions returned an automaton with a self-loop
C2_Witness ==
    /\ ConstructAllReturned
    /\ \E s \in DOMAIN ret.value : \E x \in DOMAIN ret.value[s] : ret.value[s][x] = s

\* the cap MaxQueue on the worklist of states stops no run of the code
QueueWithinCap == Len(state_queue) <= MaxQueue

-----------------------------------------------------------------------------
(* order of processing *)

\* C5: whichever entry of the worklist closure takes at each step, it ends as
\* the first-in-first-out run does: with the same item set, or the same error.
C5_ClosureConfluent ==
    (pc = "done" /\ call.op = "closure") =>
        ret = closure(call.item_set, grammar)

\* closure, its worklist processed in some order, returned a set with at least
\* two items more than its two-item argument
C5_Witness ==
    /\ pc = "done"
    /\ call.op = "closure"
    /\ ~ret.raised
    /\ Cardinality(call.item_set) = 2
    /\ Cardinality(ret.value) >= 4
    /\ ret = closure(call.item_set, grammar)

\* C7: whichever entry of the worklist of states construct_all_transitions
\* takes at each step, with duplicates queued or not, it ends as the
\* first-in-first-out run does: with the same mapping, or the same error.
C7_AutomatonOrderIndependent ==
    (pc = "done" /\ call.op = "construct_all_transitions") =>
        ret = construct_all_transitions(grammar)

\* construct_all_transitions returned an automaton of at least five states
C7_Witness ==
    /\ ConstructAllReturned
    /\ Cardinality(DOMAIN ret.value) >= 5
    /\ ret = construct_all_transitions(grammar)

-----------------------------------------------------------------------------
(* equality and hash of the value objects *)

\* a and b were constructed with the same arguments
SameArguments(a, b) ==
    /\ a.kind = b.kind
    /\ a.name = b.name
    /\ a.kind = "Terminal" => a.is_literal = b.is_literal

\* C11: two separately constructed Terminals are equal iff their text and
\* literal flag match, two separately constructed NonTerminals are equal iff
\* their names match, equal symbols have equal hashes, and a set that holds one
\* of two such symbols is found to hold the other.
C11_SymbolsStructural ==
    (pc = "done" /\ call.op = "symbol_eq" /\ call.a.id # call.b.id) =>
        /\ ret.value.eq <=> SameArguments(call.a, call.b)
        /\ ret.value.eq => ret.value.hash_a = ret.value.hash_b
        /\ SameArguments(call.a, call.b) => ret.value.found

\* C12: two Productions with equal heads and equal bodies are equal and have
\* equal hashes, Productions with different bodies are not equal; two Items
\* with equal productions and equal positions are equal and have equal
\* hashes, and an item is not equal to the item advance() returns for it.
C12_StructuralEquality ==
    /\ (pc = "done" /\ call.op = "production_eq") =>
           /\ (call.a.non_terminal = call.b.non_terminal
                   /\ call.a.produces = call.b.produces) =>
                  (ret.value.eq /\ ret.value.hash_a = ret.value.hash_b)
           /\ call.a.produces # call.b.produces => ~ret.value.eq
           /\ ret.value.eq <=> (call.a = call.b)
    /\ (pc = "done" /\ call.op = "item_eq") =>
           /\ (call.a.rule = call.b.rule
                   /\ call.a.parse_position = call.b.parse_position) =>
                  (ret.value.eq /\ ret.value.hash_a = ret.value.hash_b)
           /\ ret.value.eq <=> (call.a = call.b)
           /\ ~ret.value.advanced_eq

\* two Productions of the same head and different bodies of the same length
\* were compared and found different
C12_Witness ==
    /\ pc = "done"
    /\ call.op = "production_eq"
    /\ call.a.non_terminal = call.b.non_terminal
    /\ Len(call.a.produces) = Len(call.b.produces)
    /\ call.a.produces # call.b.produces
    /\ ~ret.value.eq

-----------------------------------------------------------------------------
(* Grammar.productions_of *)

\* the non-terminals that occur in the body of a user's production
SuppliedBodySymbols ==
    UNION { {productions[i].produces[k] : k \in 1..Len(productions[i].produces)} :
            i \in 1..Len(productions) }

\* C13: productions_of(N) for a non-terminal N without recorded productions
\* raises KeyError and returns nothing, and the grammar is as it was built.
C13_UnknownSymbol ==
    (pc = "done" /\ call.op = "productions_of"
        /\ call.non_terminal \notin SuppliedHeads \cup {grammar.starting_symbol}) =>
        /\ ret = Raise("KeyError")
        /\ grammar = GrammarNew(productions, start)

\* productions_of failed for a non-terminal that occurs in the body of a
\* production and is the head of none
C13_Witness ==
    /\ pc = "done"
    /\ call.op = "productions_of"
    /\ call.non_terminal \in SuppliedBodySymbols \ SuppliedHeads
    /\ ret.raised

\* C14: for every head H of a user's production, productions_of(H) returns
\* the user's productions of head H, each once and no other; and
\* starting_production has the head starting_symbol and the designated start
\* symbol as its whole body.
C14_ProductionsOfHead ==
    /\ (pc = "done" /\ call.op = "productions_of"
            /\ call.non_terminal \in SuppliedHeads) =>
           /\ ~ret.raised
           /\ IsList(ret.value)
           /\ {ret.value.list[k] : k \in 1..Len(ret.value.list)}
                  = {productions[i] : i \in {j \in 1..Len(productions) :
                                    productions[j].non_terminal = call.non_terminal}}
           /\ \A j, k \in 1..Len(ret.value.list) :
                  ret.value.list[j] = ret.value.list[k] => j = k
    /\ grammar.constructed =>
           /\ grammar.starting_production.non_terminal = grammar.starting_symbol
           /\ grammar.starting_production.produces = <<start>>

\* productions_of returned two productions of a head, for a grammar that has
\* productions of another head too
C14_Witness ==
    /\ pc = "done"
    /\ call.op = "productions_of"
    /\ ~ret.raised
    /\ IsList(ret.value)
    /\ Len(ret.value.list) = 2
    /\ Cardinality(SuppliedHeads) >= 2

-----------------------------------------------------------------------------
(* display forms *)

RECURSIVE Escaped(_)
\* name with a backslash put before each of its characters <, > and \
Escaped(name) ==
    IF name = <<>> THEN <<>>
    ELSE (IF Head(name) \in {"<", ">", "\\"}
          THEN <<"\\", Head(name)>> ELSE <<Head(name)>>) \o Escaped(Tail(name))

\* the display forms of the symbols of body, with the marker @ put in after
\* the first position of them
Marked(body, position) ==
    [k \in 1..(Len(body) + 1) |->
        IF k <= position THEN str(body[k])
        ELSE IF k = position + 1 THEN <<"@">>
        ELSE str(body[k - 1])]

\* C15: str(item) is the display form of the head, then ::=, then the display
\* forms of the body symbols in order with @ put in at the position, all
\* separated by single spaces; Item(E -> E * B, 1) displays as
\* <E> ::= <E> @ "*" <B>.
C15_ItemDisplay ==
    (pc = "done" /\ call.op = "item_str") =>
        /\ ret.value = join(<<" ">>,
                            <<str(call.a.rule.non_terminal), <<":", ":", "=">> >>
                                \o Marked(call.a.rule.produces, call.a.parse_position))
        /\ call.a = Item(PRODUCTION_E_E_STAR_B, 1) =>
               ret.value = << "<", "E", ">", " ", ":", ":", "=", " ", "<", "E", ">", " ",
                              "@", " ", "\"", "*", "\"", " ", "<", "B", ">" >>

\* C16: str(NonTerminal(name)) is the name between angle brackets, with a
\* backslash before each <, > and \ of the name.
C16_NonTerminalDisplay ==
    (pc = "done" /\ call.op = "non_terminal_str") =>
        ret.value = <<"<">> \o Escaped(call.a.name) \o <<">">>

-----------------------------------------------------------------------------
(* closure: the worklist *)

\* no item was put on the queue more than once, every item on the queue is in
\* item_set, and closure returns with its queue empty
EnqueuedOnce ==
    call.op = "closure" =>
        /\ \A item \in DOMAIN enqueued : enqueued[item] <= 1
        /\ \A k \in 1..Len(queue) : queue[k] \in item_set
        /\ (pc = "done" /\ ~ret.raised) => queue = <<>>

\* C17: in every run of closure no item is put on the worklist more than once
\* and every item on the worklist is in the working set; the loop comes to an
\* end, with an empty worklist when it returns, also for grammars with left
\* recursion or mutual recursion.
C17_ClosureEnqueuesOnce ==
    /\ <>(pc = "done")
    /\ []EnqueuedOnce

\* closure returned for an item set in which an item expects the head of its
\* own production, after at least three items had been on the worklist
C17_Witness ==
    /\ pc = "done"
    /\ call.op = "closure"
    /\ ~ret.raised
    /\ \E item \in call.item_set : expecting_symbol(item) = item.rule.non_terminal
    /\ Cardinality(DOMAIN enqueued) >= 3
    /\ queue = <<>>

-----------------------------------------------------------------------------
(* construct_all_transitions: the automaton *)

\* the states that the transition tables of automaton lead to
Successors(automaton) ==
    UNION { {automaton[s][x] : x \in DOMAIN automaton[s]} : s \in DOMAIN automaton }

RECURSIVE ReachableIn(_, _)
\* the states reached from the states of T by following the transition
\* tables of automaton
ReachableIn(automaton, T) ==
    LET more == UNION { {automaton[s][x] : x \in DOMAIN automaton[s]} :
                        s \in T \cap DOMAIN automaton }
    IN IF more \subseteq T THEN T ELSE ReachableIn(automaton, T \cup more)

\* C18: in the automaton construct_all_transitions returns, every successor in
\* a transition table is a key of the automaton, and every key is reached from
\* the initial state by following transitions.
C18_AutomatonClosed ==
    ConstructAllReturned =>
        /\ Successors(ret.value) \subseteq DOMAIN ret.value
        /\ closure({Item(grammar.starting_production, 0)}, grammar).value
               \in DOMAIN ret.value
        /\ DOMAIN ret.value \subseteq
               ReachableIn(ret.value,
                   {closure({Item(grammar.starting_production, 0)}, grammar).value})

\* construct_all_transitions returned an automaton with a state that is
\* neither the initial state nor one of its successors
C18_Witness ==
    /\ ConstructAllReturned
    /\ \E s \in DOMAIN ret.value :
           \E first \in {closure({Item(grammar.starting_production, 0)}, grammar).value} :
               /\ s # first
               /\ \A x \in DOMAIN ret.value[first] : ret.value[first][x] # s

\* C19: every state that is a key or a successor in the automaton
\* construct_all_transitions returns is a non-empty item set that closure
\* returns unchanged, with every item at a position from 0 to the length of
\* its body; and neither construct_transition nor construct_all_transitions
\* ends with the ValueError of advance().
C19_StatesWellFormed ==
    /\ (pc = "done" /\ call.op \in {"construct_transition", "construct_all_transitions"}) =>
           ret # Raise("ValueError")
    /\ ConstructAllReturned =>
           \A s \in DOMAIN ret.value \cup Successors(ret.value) :
               /\ s # {}
               /\ closure(s, grammar) = Return(s)
               /\ \A item \in s :
                      item.parse_position \in 0..Len(item.rule.produces)

\* construct_all_transitions returned an automaton that has a state with a
\* completed item next to an item that expects a non-terminal
C19_Witness ==
    /\ ConstructAllReturned
    /\ \E s \in DOMAIN ret.value :
           /\ \E item \in s : /\ item.parse_position = Len(item.rule.produces)
                               /\ item.parse_position >= 1
           /\ \E item \in s : IsNonTerminal(expecting_symbol(item))

\* every state a table of automaton leads to on symbol x has an item at a
\* position of 1 or more, each such item has x just before its position, and
\* its other items are at position 0
EnteredOn(automaton) ==
    \A s \in DOMAIN automaton : \A x \in DOMAIN automaton[s] :
        /\ \E item \in automaton[s][x] : item.parse_position >= 1
        /\ \A item \in automaton[s][x] :
               IF item.parse_position >= 1
               THEN item.rule.produces[item.parse_position] = x
               ELSE item.parse_position = 0

\* C20: in the automaton of construct_all_transitions every successor state
\* reached on symbol X has an item at a position of 1 or more, every such item
\* has X just before its position and the other items are at position 0; so
\* all transitions that lead to one state carry the same symbol.
C20_EnteringSymbol ==
    call.op = "construct_all_transitions" =>
        /\ EnteredOn(results)
        /\ \A s \in DOMAIN results, t \in DOMAIN results :
               \A x \in DOMAIN results[s], y \in DOMAIN results[t] :
                   results[s][x] = results[t][y] => x = y
        /\ (pc = "done" /\ ~ret.raised) => ret.value = results

\* construct_all_transitions returned an automaton in which two states lead
\* to one state, which has items at position 0 too
C20_Witness ==
    /\ ConstructAllReturned
    /\ \E s \in DOMAIN ret.value, t \in DOMAIN ret.value :
           /\ s # t
           /\ \E x \in DOMAIN ret.value[s] \cap DOMAIN ret.value[t] :
                  /\ ret.value[s][x] = ret.value[t][x]
                  /\ \E item \in ret.value[s][x] : item.parse_position = 0

-----------------------------------------------------------------------------
(* undefined non-terminals *)

\* Y has an item that expects a non-terminal without productions
HasUndefined(Y) ==
    \E item \in Y :
        /\ IsNonTerminal(expecting_symbol(item))
        /\ AugmentedProductionsOf(expecting_symbol(item)) = {}

\* C21: when an item of a set under construction (the closure of the argument
\* of closure, a successor state of construct_transition, a state of the
\* automaton of construct_all_transitions) expects a non-terminal without
\* recorded productions, the call ends with the KeyError of productions_of
\* and returns nothing: no item set, no mapping, no partial automaton.
C21_UndefinedNonTerminalRaises ==
    /\ (pc = "done" /\ call.op = "closure"
            /\ HasUndefined(LeastClosed(call.item_set))) =>
           ret = Raise("KeyError")
    /\ (pc = "done" /\ call.op = "construct_transition"
            /\ \E x \in expected_symbols(call.item_set) :
                   HasUndefined(Goto(call.item_set, x))) =>
           ret = Raise("KeyError")
    /\ (pc = "done" /\ call.op = "construct_all_transitions"
            /\ \E s \in ReachableStates : HasUndefined(s)) =>
           ret = Raise("KeyError")

\* construct_all_transitions ended with KeyError after it had recorded the
\* transition table of an initial state in which every expected non-terminal
\* has productions
C21_Witness ==
    /\ pc = "done"
    /\ call.op = "construct_all_transitions"
    /\ ret = Raise("KeyError")
    /\ ~HasUndefined(LeastClosed({Item(grammar.starting_production, 0)}))
    /\ DOMAIN results # {}

====
